---------------------------- MODULE Spec2Model ----------------------------
(***************************************************************************)
(* Model of the Hook Relay Next.js SDK: the signature module (signPayload,  *)
(* verifySignature, timingSafeEqual) and the request wrapper               *)
(* (withHookRelay, extractProviderEventId, reportOutcome).                 *)
(*                                                                         *)
(* JavaScript strings are sequences of one-character strings, so that      *)
(* parseInt, String(n), startsWith, slice, template literals and the       *)
(* character loop of timingSafeEqual are computed as the code computes     *)
(* them.  An absent value (a header that is not set, an undefined option,  *)
(* an unset environment variable) is Null.                                 *)
(***************************************************************************)
EXTENDS Integers, Sequences, FiniteSets, TLC

VARIABLES
    sv,         \* the signature module under direct calls (sign / verify)
    env,        \* process.env: HOOKRELAY_SECRET and HOOKRELAY_API_URL
    wrapped,    \* the options given to withHookRelay; Unwrapped before the call
    clock,      \* Date.now() in milliseconds
    inv,        \* per invocation of hookRelayHandler: position and locals
    calls,      \* the user callback's invocations, in order
    reports     \* the outcome reports handed to fetch, in order

vars == <<sv, env, wrapped, clock, inv, calls, reports>>

-----------------------------------------------------------------------------
(* Strings *)

\* the printable ASCII characters, in code order from 32 (space) to 126 (~);
\* code 96 (the grave accent) is held by a placeholder
Printable ==
    <<" ", "!", "\"", "#", "$", "%", "&", "'", "(", ")", "*", "+", ",", "-", ".", "/",
      "0", "1", "2", "3", "4", "5", "6", "7", "8", "9", ":", ";", "<", "=", ">", "?",
      "@", "A", "B", "C", "D", "E", "F", "G", "H", "I", "J", "K", "L", "M", "N", "O",
      "P", "Q", "R", "S", "T", "U", "V", "W", "X", "Y", "Z", "[", "\\", "]", "^", "_",
      "<96>", "a", "b", "c", "d", "e", "f", "g", "h", "i", "j", "k", "l", "m", "n", "o",
      "p", "q", "r", "s", "t", "u", "v", "w", "x", "y", "z", "{", "|", "}", "~">>

\* an absent value: null / undefined; no string equals it
Null == <<"<null>">>

\* the element of a one-element set.  Only({ F(x) : x \in {e} }) is F(e) with
\* e evaluated once, where an operator's parameter is evaluated at every use
Only(S) == CHOOSE x \in S : TRUE

\* the function f held as a table, so that applying it is a lookup
Tabulated(f) == f @@ <<>>

\* the code of each printable character
CodeOf ==
    Tabulated([c \in {Printable[i] : i \in 1..Len(Printable)} |->
                  31 + (CHOOSE i \in 1..Len(Printable) : Printable[i] = c)])

\* String.prototype.charCodeAt, for one character
CharCode(c) == CodeOf[c]

\* String.fromCharCode
Chr(code) == Printable[code - 31]

IsDigit(c) == CharCode(c) >= 48 /\ CharCode(c) <= 57

\* String.prototype.startsWith
StartsWith(s, prefix) ==
    /\ Len(s) >= Len(prefix)
    /\ SubSeq(s, 1, Len(prefix)) = prefix

\* String.prototype.slice(n), n >= 0
Slice(s, n) == SubSeq(s, n + 1, Len(s))

\* JavaScript truthiness of a string-or-null value: !x is true for null and ""
Falsy(x) == x = Null \/ x = <<>>

RECURSIVE DigitsOf(_)
\* the decimal digits of a natural number
DigitsOf(n) ==
    IF n < 10 THEN <<Chr(48 + n)>>
    ELSE Append(DigitsOf(n \div 10), Chr(48 + (n % 10)))

\* String(n) for an integer n
NumToString(n) == IF n < 0 THEN <<"-">> \o DigitsOf(0 - n) ELSE DigitsOf(n)

RECURSIVE SkipSpaces(_)
\* parseInt ignores leading white space
SkipSpaces(s) ==
    IF s # <<>> /\ Head(s) = " " THEN SkipSpaces(Tail(s)) ELSE s

RECURSIVE DigitPrefixValue(_, _)
\* the value of the longest prefix of digits of s, continuing from acc
DigitPrefixValue(s, acc) ==
    IF s = <<>> \/ ~IsDigit(Head(s)) THEN acc
    ELSE DigitPrefixValue(Tail(s), 10 * acc + (CharCode(Head(s)) - 48))

\* parseInt(s, 10): white space, an optional sign, then the longest run of
\* digits; NaN when there is no digit.  The result is [nan, value].
ParseInt(s) ==
    LET t == SkipSpaces(s)
        signed == t # <<>> /\ Head(t) \in {"-", "+"}
        u == IF signed THEN Tail(t) ELSE t
        neg == signed /\ Head(t) = "-"
    IN  IF u = <<>> \/ ~IsDigit(Head(u))
        THEN [nan |-> TRUE, value |-> 0]
        ELSE [nan |-> FALSE,
              value |-> IF neg THEN 0 - DigitPrefixValue(u, 0)
                               ELSE DigitPrefixValue(u, 0)]

-----------------------------------------------------------------------------
(* Bit operations on character codes *)

\* width of the character codes that are combined bit by bit
CodeBits == 7

\* bit k of x
BitAt(x, k) == (x \div (2 ^ k)) % 2

RECURSIVE FromBits(_, _)
\* the number whose bit j is bits[j], for the bits from k upwards
FromBits(bits, k) ==
    IF k = CodeBits THEN 0 ELSE bits[k] * (2 ^ k) + FromBits(bits, k + 1)

\* the sequence s held as a table, so that s[i] is a lookup
TabulatedSeq(s) == s \o <<>>

\* x ^ y for all character codes: entry x * 2^CodeBits + y + 1
XorTable ==
    TabulatedSeq([n \in 1..(2 ^ (2 * CodeBits)) |->
        LET x == (n - 1) \div (2 ^ CodeBits)
            y == (n - 1) % (2 ^ CodeBits)
        IN  FromBits([k \in 0..(CodeBits - 1) |-> (BitAt(x, k) + BitAt(y, k)) % 2], 0)])

\* x ^ y
BitXor(x, y) == XorTable[x * (2 ^ CodeBits) + y + 1]

\* the bitwise OR of all the numbers of the set S (0 for the empty set)
OrAll(S) ==
    FromBits([k \in 0..(CodeBits - 1) |->
                 IF \E d \in S : BitAt(d, k) = 1 THEN 1 ELSE 0], 0)

-----------------------------------------------------------------------------
(* crypto.ts *)

SIGNATURE_VERSION == <<"v", "1">>

TIMESTAMP_TOLERANCE_SECONDS == 300

\* the length in bytes of an HMAC-SHA256 digest
DigestBytes == 32

\* TextEncoder.encode, for ASCII text: one byte per character
Encode(s) == [i \in 1..Len(s) |-> CharCode(s[i])]

\* crypto.subtle.sign(HMAC, key, data): a fixed-length digest that no two
\* (key, data) pairs share.  The digest is the key's length, the key and
\* the data, padded with zero bytes (no character has code 0).
HmacSha256(key, data) ==
    Only({ [i \in 1..DigestBytes |-> IF i <= Len(body) THEN body[i] ELSE 0]
           : body \in {<<Len(key)>> \o key \o data} })

HexDigits ==
    <<"0", "1", "2", "3", "4", "5", "6", "7", "8", "9", "a", "b", "c", "d", "e", "f">>

\* b.toString(16).padStart(2, '0'): the high and the low hex digit of a byte
HexHigh(b) == HexDigits[(b \div 16) + 1]
HexLow(b) == HexDigits[(b % 16) + 1]

\* Array.from(bytes).map(hex).join('')
HexJoin(bytes) ==
    Only({ [i \in 1..(2 * Len(bs)) |->
               IF i % 2 = 1 THEN HexHigh(bs[(i + 1) \div 2]) ELSE HexLow(bs[i \div 2])]
           : bs \in {bytes} })

\* a signature over the payload alone, the timestamp left out; not what the
\* code does
signPayload_PayloadOnly(timestamp, payload, secret) ==
    LET signature == HmacSha256(Encode(secret), Encode(payload))
        hexDigest == HexJoin(signature)
    IN  SIGNATURE_VERSION \o <<"=">> \o hexDigest

\* signPayload(timestamp, payload, secret)
signPayload(timestamp, payload, secret) ==
    LET signedPayload == NumToString(timestamp) \o <<".">> \o payload
        signature == HmacSha256(Encode(secret), Encode(signedPayload))
        hexDigest == HexJoin(signature)
    IN  SIGNATURE_VERSION \o <<"=">> \o hexDigest

\* timingSafeEqual with a loop that stops one character early
timingSafeEqual_SkipsLast(a, b) ==
    \E sa \in {a}, sb \in {b} :
        IF Len(sa) # Len(sb) THEN FALSE
        ELSE \E diffs \in {{ BitXor(CharCode(sa[i]), CharCode(sb[i]))
                             : i \in 1..(Len(sa) - 1) }} :
                OrAll(diffs) = 0

\* timingSafeEqual(a, b): the length check, then the loop over every index
\*   result |= a.charCodeAt(i) ^ b.charCodeAt(i)
\* whose final result is the OR of the XOR of the characters at every index
timingSafeEqual(a, b) ==
    \E sa \in {a}, sb \in {b} :
        IF Len(sa) # Len(sb) THEN FALSE
        ELSE \E diffs \in {{ BitXor(CharCode(sa[i]), CharCode(sb[i])) : i \in 1..Len(sa) }} :
                OrAll(diffs) = 0

Abs(x) == IF x < 0 THEN 0 - x ELSE x

\* the timestamp check with >= for >
TimestampRejected_AtEdge(ts, now) ==
    ts.nan \/ Abs(now - ts.value) >= TIMESTAMP_TOLERANCE_SECONDS

\* the timestamp check without Math.abs: only old timestamps are rejected
TimestampRejected_PastOnly(ts, now) ==
    ts.nan \/ now - ts.value > TIMESTAMP_TOLERANCE_SECONDS

\* the timestamp check of verifySignature: not a number, or outside the window
TimestampRejected(ts, now) ==
    ts.nan \/ Abs(now - ts.value) > TIMESTAMP_TOLERANCE_SECONDS

\* the version check of verifySignature
HasVersionPrefix(signatureHeader) ==
    StartsWith(signatureHeader, SIGNATURE_VERSION \o <<"=">>)

\* verifySignature(timestamp, payload, signatureHeader, secret), with
\* now = Math.floor(Date.now() / 1000) read at the call
verifySignature(timestamp, payload, signatureHeader, secret, now) ==
    LET ts == ParseInt(timestamp)
    IN  IF TimestampRejected(ts, now) THEN FALSE
        ELSE IF ~HasVersionPrefix(signatureHeader) THEN FALSE
        ELSE LET expectedSignature ==
                     Slice(signatureHeader, Len(SIGNATURE_VERSION) + 1)
                 computed == signPayload(ts.value, payload, secret)
                 computedSignature == Slice(computed, Len(SIGNATURE_VERSION) + 1)
             IN  timingSafeEqual(computedSignature, expectedSignature)

-----------------------------------------------------------------------------
(* Input universe *)

\* the earliest reading of the clock, in seconds
EpochSeconds == 1000

\* how far, in seconds, two direct calls of verifySignature may lie apart
MaxDrift == 1

\* readings of Math.floor(Date.now() / 1000) for direct calls
Nows == EpochSeconds .. (EpochSeconds + MaxDrift)

\* integer timestamps that get signed: just outside the tolerance window, on
\* its edges, and inside it
SignTimes ==
    { EpochSeconds - TIMESTAMP_TOLERANCE_SECONDS - 1,
      EpochSeconds - TIMESTAMP_TOLERANCE_SECONDS,
      EpochSeconds,
      EpochSeconds + MaxDrift + TIMESTAMP_TOLERANCE_SECONDS,
      EpochSeconds + MaxDrift + TIMESTAMP_TOLERANCE_SECONDS + 1 }

BodyEmptyObject == <<"{", "}">>
BodyIdA == <<"{", "\"", "i", "d", "\"", ":", "\"", "a", "\"", "}">>
BodyIdB == <<"{", "\"", "i", "d", "\"", ":", "\"", "b", "\"", "}">>
BodyNotJson == <<"x">>

Payloads == {BodyEmptyObject, BodyIdA, BodyIdB, BodyNotJson}

SecretK1 == <<"k", "1">>
SecretK2 == <<"k", "2">>

Secrets == {SecretK1, SecretK2}

\* timestamp header strings: the decimal form of each signed time, forms that
\* parseInt reads as EpochSeconds although they are not its decimal form,
\* and forms that are no number
TimestampStrings ==
    LET e == NumToString(EpochSeconds)
    IN  { NumToString(t) : t \in SignTimes }
        \cup { <<" ">> \o e, <<"0">> \o e, <<"+">> \o e, <<"-">> \o e,
               e \o <<".", "5">>, e \o <<"x">> }
        \cup { <<>>, <<"a", "b", "c">> }

\* the hex digest part of a signature header made by signPayload
DigestOf(header) == Slice(header, Len(SIGNATURE_VERSION) + 1)

\* signature headers: every header signPayload makes over the universe, and
\* each of them without its version prefix and under another version
SignatureHeaders ==
    UNION { LET good == signPayload(t, p, s)
            IN  { good, DigestOf(good), <<"v", "2", "=">> \o DigestOf(good) }
          : <<t, p, s>> \in SignTimes \X Payloads \X Secrets }

\* digests that differ from d: one character changed at either end, one
\* character dropped or added, and the digests of other signed tuples
OtherDigests(d) ==
    LET flip(c) == IF c = "0" THEN "1" ELSE "0"
    IN  ( { <<flip(d[1])>> \o Tail(d),
            SubSeq(d, 1, Len(d) - 1) \o <<flip(d[Len(d)])>>,
            SubSeq(d, 1, Len(d) - 1),
            d \o <<"0">> }
          \cup { DigestOf(signPayload(EpochSeconds, p, s))
                 : <<p, s>> \in Payloads \X Secrets } ) \ {d}

-----------------------------------------------------------------------------
(* Direct calls of the signature module *)

SvStart ==
    [phase |-> "start", origin |-> "none", tamper |-> "none", signedTime |-> 0,
     timestamp |-> <<>>, payload |-> <<>>, header |-> <<>>, secret |-> <<>>,
     now |-> 0, result |-> FALSE]

\* header = await signPayload(t, p, s), to be verified under String(t)
SigSign ==
    /\ sv.phase = "start"
    /\ \E t \in SignTimes, p \in Payloads, s \in Secrets :
          sv' = [sv EXCEPT !.phase = "ready", !.origin = "signed",
                           !.signedTime = t,
                           !.timestamp = NumToString(t), !.payload = p,
                           !.header = signPayload(t, p, s), !.secret = s]
    /\ UNCHANGED <<env, wrapped, clock, inv, calls, reports>>

\* arguments that come from anywhere
SigForge ==
    /\ sv.phase = "start"
    /\ \E ts \in TimestampStrings, p \in Payloads, h \in SignatureHeaders, s \in Secrets :
          sv' = [sv EXCEPT !.phase = "ready", !.origin = "forged",
                           !.timestamp = ts, !.payload = p,
                           !.header = h, !.secret = s]
    /\ UNCHANGED <<env, wrapped, clock, inv, calls, reports>>

\* result = await verifySignature(timestamp, payload, header, secret) at time now
SigVerify ==
    /\ sv.phase = "ready"
    /\ \E now \in Nows :
          sv' = [sv EXCEPT !.phase = "verified", !.now = now,
                           !.result = verifySignature(sv.timestamp, sv.payload,
                                                      sv.header, sv.secret, now)]
    /\ UNCHANGED <<env, wrapped, clock, inv, calls, reports>>

\* a tuple that verified, with its payload replaced by a different one
SigTamperPayload ==
    /\ sv.phase = "verified" /\ sv.result /\ sv.tamper = "none"
    /\ \E p \in Payloads \ {sv.payload} :
          sv' = [sv EXCEPT !.phase = "ready", !.tamper = "payload", !.payload = p]
    /\ UNCHANGED <<env, wrapped, clock, inv, calls, reports>>

\* a tuple that verified, with its secret replaced by a different one
SigTamperSecret ==
    /\ sv.phase = "verified" /\ sv.result /\ sv.tamper = "none"
    /\ \E s \in Secrets \ {sv.secret} :
          sv' = [sv EXCEPT !.phase = "ready", !.tamper = "secret", !.secret = s]
    /\ UNCHANGED <<env, wrapped, clock, inv, calls, reports>>

\* a tuple that verified, with the digest of its header replaced by a different one
SigTamperDigest ==
    /\ sv.phase = "verified" /\ sv.result /\ sv.tamper = "none"
    /\ \E d \in OtherDigests(DigestOf(sv.header)) :
          sv' = [sv EXCEPT !.phase = "ready", !.tamper = "digest",
                           !.header = SIGNATURE_VERSION \o <<"=">> \o d]
    /\ UNCHANGED <<env, wrapped, clock, inv, calls, reports>>

InitSig ==
    /\ sv = SvStart
    /\ env = [HOOKRELAY_SECRET |-> SecretK1, HOOKRELAY_API_URL |-> Null]
    /\ wrapped = [provider |-> Null, allowReplay |-> "undefined",
                  timeoutMs |-> [type |-> "undefined"],
                  enforceIdempotency |-> "undefined"]
    /\ clock = 1000 * EpochSeconds
    /\ inv = [r \in {1, 2} |-> [pc |-> "idle"]]
    /\ calls = <<>>
    /\ reports = <<>>

NextSig ==
    \/ SigSign
    \/ SigForge
    \/ SigVerify
    \/ SigTamperPayload
    \/ SigTamperSecret
    \/ SigTamperDigest

SpecSig == InitSig /\ [][NextSig]_vars

-----------------------------------------------------------------------------
(* JSON.parse and JavaScript values *)

\* JavaScript values: undefined, null, numbers, strings, and objects given by
\* their members, a sequence of <<key, value>> pairs
JsUndefined == [type |-> "undefined"]
JsNull == [type |-> "null"]
JsNumber(n) == [type |-> "number", num |-> n]
JsString(str) == [type |-> "string", str |-> str]
JsObject(members) == [type |-> "object", members |-> members]

\* the result of JSON.parse: a value, or a SyntaxError
Parsed(v) == [ok |-> TRUE, value |-> v]
SyntaxError == [ok |-> FALSE, value |-> JsUndefined]

\* s is a JSON integer literal: digits with no leading zero
IsJsonInteger(s) ==
    /\ s # <<>>
    /\ \A i \in 1..Len(s) : IsDigit(s[i])
    /\ (Len(s) = 1 \/ s[1] # "0")

\* s is a JSON string literal without escapes
IsJsonString(s) ==
    /\ Len(s) >= 2
    /\ s[1] = "\"" /\ s[Len(s)] = "\""
    /\ \A i \in 2..(Len(s) - 1) : s[i] \notin {"\"", "\\"}

\* JSON.parse of a scalar: null, an integer or a string
ParseScalar(s) ==
    IF s = <<"n", "u", "l", "l">> THEN Parsed(JsNull)
    ELSE IF IsJsonInteger(s) THEN Parsed(JsNumber(DigitPrefixValue(s, 0)))
    ELSE IF IsJsonString(s) THEN Parsed(JsString(SubSeq(s, 2, Len(s) - 1)))
    ELSE SyntaxError

\* JSON.parse of {"key":value} with a scalar value; colon is the index of
\* the colon after the key
ParseMember(s, colon) ==
    LET key == SubSeq(s, 2, colon - 1)
        val == ParseScalar(SubSeq(s, colon + 1, Len(s) - 1))
    IN  IF IsJsonString(key) /\ val.ok
        THEN Parsed(JsObject(<< <<SubSeq(key, 2, Len(key) - 1), val.value>> >>))
        ELSE SyntaxError

\* JSON.parse(text) for the documents of this model: scalars, the empty
\* object and objects of one member with a scalar value, written without
\* white space.  Any other text of the input universe is no JSON at all.
JsonParse(text) ==
    IF text = <<"{", "}">> THEN Parsed(JsObject(<<>>))
    ELSE IF Len(text) >= 2 /\ text[1] = "{" /\ text[Len(text)] = "}"
    THEN LET colons == { i \in 2..(Len(text) - 1) :
                            text[i] = ":" /\ IsJsonString(SubSeq(text, 2, i - 1)) }
         IN  IF colons = {} THEN SyntaxError
             ELSE ParseMember(text, CHOOSE i \in colons : TRUE)
    ELSE ParseScalar(text)

\* object[key]: the member's value, undefined when there is none
Member(object, key) ==
    LET hits == { i \in 1..Len(object.members) : object.members[i][1] = key }
    IN  IF hits = {} THEN JsUndefined ELSE object.members[CHOOSE i \in hits : TRUE][2]

\* !value, for the values JSON.parse returns
JsFalsy(v) ==
    \/ v.type \in {"undefined", "null"}
    \/ (v.type = "number" /\ v.num = 0)
    \/ (v.type = "string" /\ v.str = <<>>)

\* a ?? b
Coalesce(a, b) == IF a.type \in {"undefined", "null"} THEN b ELSE a

-----------------------------------------------------------------------------
(* withHookRelay.ts: extractProviderEventId *)

ProviderStripe == <<"s", "t", "r", "i", "p", "e">>
ProviderGithub == <<"g", "i", "t", "h", "u", "b">>

\* an extractProviderEventId that reads the id for every provider; not what
\* the code does
extractProviderEventId_AnyProvider(provider, payload) ==
    IF JsFalsy(payload) \/ payload.type # "object" THEN JsUndefined
    ELSE Member(payload, <<"i", "d">>)

\* extractProviderEventId(provider, payload)
extractProviderEventId(provider, payload) ==
    IF JsFalsy(payload) \/ payload.type # "object" THEN JsUndefined
    ELSE IF provider = ProviderStripe THEN Member(payload, <<"i", "d">>)
    ELSE JsUndefined

-----------------------------------------------------------------------------
(* outcome.ts: reportOutcome *)

DEFAULT_API_URL ==
    <<"h", "t", "t", "p", "s", ":", "/", "/", "a", "p", "i", ".",
      "h", "o", "o", "k", "r", "e", "l", "a", "y", ".", "i", "o">>

\* a ?? b for a string-or-null value
OrElse(a, b) == IF a = Null THEN b ELSE a

\* a reportOutcome that lets the environment override its apiUrl parameter;
\* not what the code does
OutcomeRequest_EnvFirst(eventId, outcome, secret, apiUrl) ==
    LET baseUrl == OrElse(env.HOOKRELAY_API_URL, OrElse(apiUrl, DEFAULT_API_URL))
    IN  [url |-> baseUrl \o <<"/", "v", "1", "/", "e", "v", "e", "n", "t", "s", "/">>
                         \o eventId \o <<"/", "o", "u", "t", "c", "o", "m", "e">>,
         authorization |-> <<"B", "e", "a", "r", "e", "r", " ">> \o secret,
         body |-> outcome]

\* the fetch call of reportOutcome(eventId, outcome, secret, apiUrl): the URL,
\* the Authorization header and the JSON body
OutcomeRequest(eventId, outcome, secret, apiUrl) ==
    LET baseUrl == OrElse(apiUrl, OrElse(env.HOOKRELAY_API_URL, DEFAULT_API_URL))
    IN  [url |-> baseUrl \o <<"/", "v", "1", "/", "e", "v", "e", "n", "t", "s", "/">>
                         \o eventId \o <<"/", "o", "u", "t", "c", "o", "m", "e">>,
         authorization |-> <<"B", "e", "a", "r", "e", "r", " ">> \o secret,
         body |-> outcome]

\* a reportOutcome that forgets the response.ok test; not what the code does
ReportResult_AnyResponse(fetched) == fetched # "networkError"

\* what reportOutcome returns once fetch has settled: true for a 2xx response,
\* false for any other response and for a rejected fetch
ReportResult(fetched) == fetched = "ok"

\* how the fetch of an outcome report can settle
FetchResults == {"ok", "notOk", "networkError"}

-----------------------------------------------------------------------------
(* withHookRelay.ts: the wrapper and the handler it returns *)

\* how many times the clock advances while a request is handled
MaxTicks == 2

\* milliseconds per advance of the clock
TickMs == 500

\* the invocations of the returned handler; Spec runs the first one alone
AllInvocations == {1, 2}
SoloInvocations == {1}

EventIdE1 == <<"e", "v", "t", "_", "1">>
BodyNumber == <<"7">>
StrTrue == <<"t", "r", "u", "e">>
StrFalse == <<"f", "a", "l", "s", "e">>

\* options given to withHookRelay: provider, and allowReplay as the
\* JavaScript value undefined, true or false; timeoutMs and
\* enforceIdempotency are left unset
OptionsUniverse ==
    [provider : {ProviderStripe, ProviderGithub},
     allowReplay : {"undefined", "true", "false"},
     timeoutMs : {JsUndefined},
     enforceIdempotency : {"undefined"}]

\* request bodies: JSON objects without and with an id, text that is no
\* JSON, and a JSON number
Bodies == {BodyEmptyObject, BodyIdA, BodyNotJson, BodyNumber}

\* values of the timestamp header: absent, now, on the edge of the window,
\* expired, and no number
TimestampHeaders ==
    { Null,
      NumToString(EpochSeconds),
      NumToString(EpochSeconds - TIMESTAMP_TOLERANCE_SECONDS),
      NumToString(EpochSeconds - TIMESTAMP_TOLERANCE_SECONDS - 1),
      <<"a", "b", "c">> }

\* values of the signature header of a request with this timestamp header
\* and body: absent, signed by the relay with the shared secret, signed with
\* another secret, signed for another body, and without the version prefix
SignatureHeadersFor(timestamp, body) ==
    LET ts == IF timestamp = Null THEN ParseInt(<<>>) ELSE ParseInt(timestamp)
        t == IF ts.nan THEN EpochSeconds ELSE ts.value
        other == IF body = BodyIdA THEN BodyEmptyObject ELSE BodyIdA
    IN  { Null,
          signPayload(t, body, SecretK1),
          signPayload(t, body, SecretK2),
          signPayload(t, other, SecretK1),
          DigestOf(signPayload(t, body, SecretK1)) }

\* the requests a caller can send
Requests ==
    UNION { [eventId : {Null, EventIdE1},
             provider : {Null, ProviderStripe, ProviderGithub},
             timestamp : {ts},
             signature : SignatureHeadersFor(ts, b),
             attempt : {Null, <<"2">>},
             replayed : {Null, StrTrue, StrFalse},
             body : {b}]
          : <<ts, b>> \in TimestampHeaders \X Bodies }

\* no handler has been made yet
Unwrapped ==
    [provider |-> Null, allowReplay |-> "undefined", timeoutMs |-> JsUndefined,
     enforceIdempotency |-> "undefined"]

NoResponse == [status |-> 0]
NoOutcome == [status |-> "none"]
NoError == [name |-> Null]
NoEvent == [id |-> Null]
NoRequest ==
    [eventId |-> Null, provider |-> Null, timestamp |-> Null, signature |-> Null,
     attempt |-> Null, replayed |-> Null, body |-> <<>>]

\* an invocation that has not started
IdleInvocation ==
    [pc |-> "idle", request |-> NoRequest, secret |-> Null, rawBody |-> Null,
     isValid |-> FALSE, event |-> NoEvent, startTime |-> 0,
     kind |-> "none", callback |-> "none", outcome |-> NoOutcome,
     fetched |-> "none", reported |-> FALSE,
     logged |-> FALSE,
     response |-> NoResponse, thrown |-> NoError]

\* Response.json(body, {status})
JsonResponse(body, status) == [status |-> status, body |-> body]

MsgMissingHeaders ==
    <<"M", "i", "s", "s", "i", "n", "g", " ", "r", "e", "q", "u", "i", "r", "e", "d", " ",
      "H", "o", "o", "k", " ", "R", "e", "l", "a", "y", " ", "h", "e", "a", "d", "e", "r", "s">>
MsgInvalidSignature ==
    <<"I", "n", "v", "a", "l", "i", "d", " ", "s", "i", "g", "n", "a", "t", "u", "r", "e">>
MsgInvalidJson ==
    <<"I", "n", "v", "a", "l", "i", "d", " ", "J", "S", "O", "N", " ",
      "p", "a", "y", "l", "o", "a", "d">>
MsgReplayNotAllowed ==
    <<"R", "e", "p", "l", "a", "y", "e", "d", " ", "e", "v", "e", "n", "t", "s", " ",
      "a", "r", "e", " ", "n", "o", "t", " ", "a", "l", "l", "o", "w", "e", "d">>
MsgSecretNotConfigured ==
    <<"H", "O", "O", "K", "R", "E", "L", "A", "Y", "_", "S", "E", "C", "R", "E", "T", " ",
      "e", "n", "v", "i", "r", "o", "n", "m", "e", "n", "t", " ",
      "v", "a", "r", "i", "a", "b", "l", "e", " ", "i", "s", " ", "n", "o", "t", " ",
      "c", "o", "n", "f", "i", "g", "u", "r", "e", "d">>
NameConfigError ==
    <<"H", "o", "o", "k", "R", "e", "l", "a", "y", "C", "o", "n", "f", "i", "g",
      "E", "r", "r", "o", "r">>
NameError == <<"E", "r", "r", "o", "r">>

\* new HookRelayConfigError(message)
HookRelayConfigError(message) == [name |-> NameConfigError, message |-> message]

\* the message of the provider gate
MsgProviderMismatch(expected, actual) ==
    <<"E", "x", "p", "e", "c", "t", "e", "d", " ", "p", "r", "o", "v", "i", "d", "e", "r", " ", "'">>
    \o expected \o <<"'", ",", " ", "g", "o", "t", " ", "'">>
    \o OrElse(actual, <<"u", "n", "k", "n", "o", "w", "n">>) \o <<"'">>

\* a required-headers gate that forgets the event id; not what the handler does
MissingRequiredHeaders_NoEventId(request) ==
    Falsy(request.signature) \/ Falsy(request.timestamp)

\* the required-headers gate
MissingRequiredHeaders(request) ==
    Falsy(request.eventId) \/ Falsy(request.signature) \/ Falsy(request.timestamp)

\* a provider gate that lets a request without the header pass; not what the
\* handler does
ProviderMismatch_AbsentPasses(request, options) ==
    request.provider # Null /\ request.provider # options.provider

\* the provider gate
ProviderMismatch(request, options) == request.provider # options.provider

\* withHookRelay(handler, options): returns the handler; reads no configuration
WrapWith(universe) ==
    /\ wrapped = Unwrapped
    /\ \E options \in universe : wrapped' = options
    /\ UNCHANGED <<sv, env, clock, inv, calls, reports>>

Wrap == WrapWith(OptionsUniverse)

\* hookRelayHandler(request), up to its first await, with the required-headers
\* gate ahead of the secret; not what the handler does
EnterHandler_HeadersFirst(started, secret, options) ==
    LET request == started.request
    IN  IF MissingRequiredHeaders(request)
        THEN [started EXCEPT !.pc = "responded",
                 !.response = JsonResponse([error |-> MsgMissingHeaders], 400)]
        ELSE IF Falsy(secret)
        THEN [started EXCEPT !.pc = "threw",
                 !.thrown = HookRelayConfigError(MsgSecretNotConfigured)]
        ELSE IF ProviderMismatch(request, options)
        THEN [started EXCEPT !.pc = "responded", !.secret = secret,
                 !.response = JsonResponse(
                     [error |-> MsgProviderMismatch(options.provider,
                                                    request.provider)], 400)]
        ELSE [started EXCEPT !.pc = "awaitBody", !.secret = secret]

\* hookRelayHandler(request), up to its first await: the secret, the
\* headers, the required-headers gate and the provider gate.  The function
\* is async, so the throw rejects the promise its caller holds.
EnterHandler(started, secret, options) ==
    LET request == started.request
    IN  IF Falsy(secret)
        THEN [started EXCEPT !.pc = "threw",
                 !.thrown = HookRelayConfigError(MsgSecretNotConfigured)]
        ELSE IF MissingRequiredHeaders(request)
        THEN [started EXCEPT !.pc = "responded", !.secret = secret,
                 !.response = JsonResponse([error |-> MsgMissingHeaders], 400)]
        ELSE IF ProviderMismatch(request, options)
        THEN [started EXCEPT !.pc = "responded", !.secret = secret,
                 !.response = JsonResponse(
                     [error |-> MsgProviderMismatch(options.provider,
                                                    request.provider)], 400)]
        ELSE [started EXCEPT !.pc = "awaitBody", !.secret = secret]

\* a call of the returned handler with a request
Invoke(r, requests) ==
    /\ wrapped # Unwrapped
    /\ inv[r].pc = "idle"
    /\ \E request \in requests :
          inv' = [inv EXCEPT ![r] =
              EnterHandler([inv[r] EXCEPT !.request = request],
                           env.HOOKRELAY_SECRET, wrapped)]
    /\ UNCHANGED <<sv, env, wrapped, clock, calls, reports>>

\* values user code can throw or reject with: Error objects, a string, a number
ThrownValues ==
    { [isError |-> TRUE, name |-> NameError, message |-> <<"b", "o", "o", "m">>,
       stack |-> <<"a", "t", " ", "h", "a", "n", "d", "l", "e", "r">>],
      [isError |-> TRUE, name |-> <<"T", "y", "p", "e", "E", "r", "r", "o", "r">>,
       message |-> <<>>, stack |-> <<"a", "t", " ", "h", "a", "n", "d", "l", "e", "r">>],
      [isError |-> FALSE, value |-> JsString(<<"o", "o", "p", "s">>)],
      [isError |-> FALSE, value |-> JsNumber(42)] }

\* String(value)
ToJsString(v) ==
    IF v.type = "string" THEN v.str
    ELSE IF v.type = "number" THEN NumToString(v.num)
    ELSE IF v.type = "null" THEN <<"n", "u", "l", "l">>
    ELSE <<"u", "n", "d", "e", "f", "i", "n", "e", "d">>

\* errorInfo that takes name and message from Error objects only; not what the
\* handler does
ErrorInfo_ErrorsOnly(error) ==
    IF error.isError
    THEN [name |-> error.name, message |-> error.message, stack |-> error.stack]
    ELSE [name |-> NameError, message |-> <<>>]

\* errorInfo of the catch block
ErrorInfo(error) ==
    IF error.isError
    THEN [name |-> error.name, message |-> error.message, stack |-> error.stack]
    ELSE [name |-> NameError, message |-> ToJsString(error.value)]

\* an event whose id is the provider's event id when the payload has one;
\* not what the handler does
BuildEvent_IdFromPayload(request, options, payload) ==
    LET extracted == extractProviderEventId(options.provider, payload)
    IN  [id |-> IF extracted.type = "string" THEN extracted.str ELSE request.eventId,
         provider |-> options.provider,
         providerEventId |-> Coalesce(extracted, JsString(request.eventId)),
         payload |-> payload,
         receivedAt |-> clock,
         attempt |-> IF Falsy(request.attempt) THEN [nan |-> FALSE, value |-> 1]
                     ELSE ParseInt(request.attempt),
         replayed |-> request.replayed = StrTrue]

\* the event handed to the callback
BuildEvent(request, options, payload) ==
    [id |-> request.eventId,
     provider |-> options.provider,
     providerEventId |->
         Coalesce(extractProviderEventId(options.provider, payload),
                  JsString(request.eventId)),
     payload |-> payload,
     receivedAt |-> clock,
     attempt |-> IF Falsy(request.attempt) THEN [nan |-> FALSE, value |-> 1]
                 ELSE ParseInt(request.attempt),
     replayed |-> request.replayed = StrTrue]

\* a replay gate that takes an unset allowReplay for false; not what the
\* handler does
ReplayRejected_UnlessAllowed(request, options) ==
    request.replayed = StrTrue /\ options.allowReplay # "true"

\* the replay gate
ReplayRejected(request, options) ==
    request.replayed = StrTrue /\ options.allowReplay = "false"

\* await request.text() has settled: the raw body is read and verifySignature
\* is called, which reads the clock
ReadBody(r) ==
    /\ inv[r].pc = "awaitBody"
    /\ LET me == inv[r]
           request == me.request
       IN  inv' = [inv EXCEPT ![r] =
              [me EXCEPT !.pc = "awaitVerify",
                         !.rawBody = request.body,
                         !.isValid = verifySignature(request.timestamp, request.body,
                                                     request.signature, me.secret,
                                                     clock \div 1000)]]
    /\ UNCHANGED <<sv, env, wrapped, clock, calls, reports>>

\* the try block after await handler(event) went well: the success report is
\* handed to fetch
AfterSuccess(me) ==
    LET outcome == [status |-> "success", durationMs |-> clock - me.startTime]
    IN  [me EXCEPT !.pc = "awaitReport", !.outcome = outcome]

\* the catch block: the failure report is handed to fetch
AfterFailure(me, error) ==
    LET outcome == [status |-> "failure", durationMs |-> clock - me.startTime,
                    error |-> ErrorInfo(error)]
    IN  [me EXCEPT !.pc = "awaitReport", !.outcome = outcome]

\* a report for the event of another invocation that has built one, as if the
\* event were kept in a variable all invocations share; not what the handler
\* does
SendReport_SharedEvent(r, me) ==
    LET others == { q \in AllInvocations \ {r} : inv[q].event # NoEvent }
        eventId == IF others = {} THEN me.request.eventId
                   ELSE inv[CHOOSE q \in others : TRUE].event.id
    IN  reports' = Append(reports,
            [by |-> r] @@ OutcomeRequest(eventId, me.outcome, me.secret, Null))

\* reportOutcome is never called; not what the handler does
SendReport_Skipped(r, me) == UNCHANGED reports

\* the report is handed to fetch twice, as if the success path and the catch
\* block both reported; not what the handler does
SendReport_Twice(r, me) ==
    LET report == [by |-> r]
                  @@ OutcomeRequest(me.request.eventId, me.outcome, me.secret, Null)
    IN  reports' = Append(Append(reports, report), report)

\* reportOutcome(eventId, outcome, secret) up to its await fetch(...)
SendReport(r, me) ==
    reports' = Append(reports,
        [by |-> r] @@ OutcomeRequest(me.request.eventId, me.outcome, me.secret, Null))

\* how a call of the user callback can go: it throws, it returns (a
\* synchronous handler), or it returns a promise that is still pending
CallbackBehaviours == {"throws", "returns", "promise"}

\* handler(event) without the await: the handler goes on to its response as
\* if the callback had settled; not what the handler does
CallbackStarted_NotAwaited(called, behaviour) ==
    [called EXCEPT !.pc = "awaitReport",
        !.kind = IF behaviour = "returns" THEN "sync" ELSE "async",
        !.callback = IF behaviour = "returns" THEN "returned" ELSE "pending",
        !.outcome = [status |-> "success", durationMs |-> 0]]

\* await handler(event) when the callback did not throw: the handler waits,
\* with no timer, for the returned value or promise to settle
CallbackStarted(called, behaviour) ==
    [called EXCEPT !.pc = "awaitCallback",
        !.kind = IF behaviour = "returns" THEN "sync" ELSE "async",
        !.callback = IF behaviour = "returns" THEN "returned" ELSE "pending"]

\* the gates after the body is read, without the signature gate; not what the
\* handler does
GateResponse_NoSignatureGate(me, options) ==
    IF ~JsonParse(me.rawBody).ok
    THEN JsonResponse([error |-> MsgInvalidJson], 400)
    ELSE IF ReplayRejected(me.request, options)
    THEN JsonResponse([error |-> MsgReplayNotAllowed], 400)
    ELSE NoResponse

\* the gates after the body is read, without the JSON gate: a body that does
\* not parse goes on to the callback; not what the handler does
GateResponse_NoJsonGate(me, options) ==
    IF ~me.isValid
    THEN JsonResponse([error |-> MsgInvalidSignature], 401)
    ELSE IF ReplayRejected(me.request, options)
    THEN JsonResponse([error |-> MsgReplayNotAllowed], 400)
    ELSE NoResponse

\* the gates after the body is read, with the replay gate ahead of JSON.parse;
\* not what the handler does
GateResponse_ReplayFirst(me, options) ==
    IF ~me.isValid
    THEN JsonResponse([error |-> MsgInvalidSignature], 401)
    ELSE IF ReplayRejected(me.request, options)
    THEN JsonResponse([error |-> MsgReplayNotAllowed], 400)
    ELSE IF ~JsonParse(me.rawBody).ok
    THEN JsonResponse([error |-> MsgInvalidJson], 400)
    ELSE NoResponse

\* the gates after the body is read: the signature, JSON.parse, the replay
\* policy.  NoResponse when the request passes them all.
GateResponse(me, options) ==
    IF ~me.isValid
    THEN JsonResponse([error |-> MsgInvalidSignature], 401)
    ELSE IF ~JsonParse(me.rawBody).ok
    THEN JsonResponse([error |-> MsgInvalidJson], 400)
    ELSE IF ReplayRejected(me.request, options)
    THEN JsonResponse([error |-> MsgReplayNotAllowed], 400)
    ELSE NoResponse

\* await verifySignature(...) has settled: the gates, then the event is built
\* and the callback is called.  When the callback throws, the catch block
\* runs at once.
SigVerifiedWith(r, thrownValues) ==
    /\ inv[r].pc = "awaitVerify"
    /\ LET me == inv[r]
           gate == GateResponse(me, wrapped)
       IN  IF gate # NoResponse
           THEN /\ inv' = [inv EXCEPT ![r] =
                      [me EXCEPT !.pc = "responded", !.response = gate]]
                /\ UNCHANGED <<calls, reports>>
           ELSE LET event == BuildEvent(me.request, wrapped, JsonParse(me.rawBody).value)
                    called == [me EXCEPT !.event = event, !.startTime = clock]
                IN  /\ calls' = Append(calls, [by |-> r, event |-> event])
                    /\ \E behaviour \in CallbackBehaviours :
                          IF behaviour = "throws"
                          THEN \E error \in thrownValues :
                                  LET caught == AfterFailure(
                                          [called EXCEPT !.kind = "sync",
                                                         !.callback = "threw"], error)
                                  IN  /\ inv' = [inv EXCEPT ![r] = caught]
                                      /\ SendReport(r, caught)
                          ELSE /\ inv' = [inv EXCEPT ![r] =
                                     CallbackStarted(called, behaviour)]
                               /\ UNCHANGED reports
    /\ UNCHANGED <<sv, env, wrapped, clock>>

SigVerified(r) == SigVerifiedWith(r, ThrownValues)

\* await handler(event) has settled: the value a synchronous handler
\* returned, or the promise fulfilled or rejected.  The report is handed to
\* fetch.
CallbackSettledWith(r, thrownValues) ==
    /\ inv[r].pc = "awaitCallback"
    /\ LET me == inv[r]
       IN  \/ LET done == AfterSuccess([me EXCEPT !.callback = "fulfilled"])
              IN  /\ inv' = [inv EXCEPT ![r] = done]
                  /\ SendReport(r, done)
           \/ /\ me.callback = "pending"
              /\ \E error \in thrownValues :
                    LET caught == AfterFailure([me EXCEPT !.callback = "rejected"], error)
                    IN  /\ inv' = [inv EXCEPT ![r] = caught]
                        /\ SendReport(r, caught)
    /\ UNCHANGED <<sv, env, wrapped, clock, calls>>

CallbackSettled(r) == CallbackSettledWith(r, ThrownValues)

\* await reportOutcome(...) has settled: a failed report is logged, and the
\* response follows the callback's outcome
ReportSettled(r) ==
    /\ inv[r].pc = "awaitReport"
    /\ \E fetched \in FetchResults :
          LET me == inv[r]
              reported == ReportResult(fetched)
          IN  inv' = [inv EXCEPT ![r] =
                  [me EXCEPT !.pc = "responded",
                      !.fetched = fetched,
                      !.reported = reported,
                      !.logged = ~reported,
                      !.response =
                          IF me.outcome.status = "success"
                          THEN JsonResponse([accepted |-> TRUE,
                                             eventId |-> me.request.eventId], 202)
                          ELSE JsonResponse([error |-> me.outcome.error.message,
                                             eventId |-> me.request.eventId], 500)]]
    /\ UNCHANGED <<sv, env, wrapped, clock, calls, reports>>

\* an invocation is between its call and its response
InFlight(r) == inv[r].pc \notin {"idle", "responded", "threw"}

\* time passes while a request is handled
Tick ==
    /\ \E r \in AllInvocations : InFlight(r)
    /\ clock < 1000 * EpochSeconds + MaxTicks * TickMs
    /\ clock' = clock + TickMs
    /\ UNCHANGED <<sv, env, wrapped, inv, calls, reports>>

\* the process starts with its secret set, empty or absent; no handler is made yet
Init ==
    /\ sv = SvStart
    /\ env \in [HOOKRELAY_SECRET : {Null, <<>>, SecretK1}, HOOKRELAY_API_URL : {Null}]
    /\ wrapped = Unwrapped
    /\ clock = 1000 * EpochSeconds
    /\ inv = [r \in AllInvocations |-> IdleInvocation]
    /\ calls = <<>>
    /\ reports = <<>>

\* one request, from any caller
Next ==
    \/ Wrap
    \/ \E r \in SoloInvocations : Invoke(r, Requests)
    \/ \E r \in SoloInvocations : ReadBody(r)
    \/ \E r \in SoloInvocations : SigVerified(r)
    \/ \E r \in SoloInvocations : CallbackSettled(r)
    \/ \E r \in SoloInvocations : ReportSettled(r)
    \/ Tick

Spec == Init /\ [][Next]_vars

-----------------------------------------------------------------------------
(* Several deliveries to one wrapped handler *)

EventIdE2 == <<"e", "v", "t", "_", "2">>

\* options of a handler that is to enforce idempotency: by the documented
\* default, or explicitly
PairOptions ==
    [provider : {ProviderStripe},
     allowReplay : {"undefined"},
     timeoutMs : {JsUndefined},
     enforceIdempotency : {"undefined", "true"}]

\* valid deliveries of two events: every header in place, signed by the relay
\* with the shared secret
PairRequests ==
    [eventId : {EventIdE1, EventIdE2},
     provider : {ProviderStripe},
     timestamp : {NumToString(EpochSeconds)},
     signature : {signPayload(EpochSeconds, BodyIdA, SecretK1)},
     attempt : {Null},
     replayed : {Null},
     body : {BodyIdA}]

\* what the callbacks of these deliveries throw or reject with
PairThrown == { e \in ThrownValues : e.isError /\ e.name = NameError }

\* the process has its secret; no handler is made yet
InitPair ==
    /\ sv = SvStart
    /\ env = [HOOKRELAY_SECRET |-> SecretK1, HOOKRELAY_API_URL |-> Null]
    /\ wrapped = Unwrapped
    /\ clock = 1000 * EpochSeconds
    /\ inv = [r \in AllInvocations |-> IdleInvocation]
    /\ calls = <<>>
    /\ reports = <<>>

\* two requests to the same handler, their steps interleaved in any order
NextPair ==
    \/ WrapWith(PairOptions)
    \/ \E r \in AllInvocations : Invoke(r, PairRequests)
    \/ \E r \in AllInvocations : ReadBody(r)
    \/ \E r \in AllInvocations : SigVerifiedWith(r, PairThrown)
    \/ \E r \in AllInvocations : CallbackSettledWith(r, PairThrown)
    \/ \E r \in AllInvocations : ReportSettled(r)
    \/ Tick

SpecPair == InitPair /\ [][NextPair]_vars

-----------------------------------------------------------------------------
(* Deliveries that pass the gates, to handlers made with every option *)

\* bodies that are JSON: objects with and without an id, an id that is a
\* number, null or the empty string, a number and null
BodyIdNumber == <<"{", "\"", "i", "d", "\"", ":", "7", "}">>
BodyIdNull == <<"{", "\"", "i", "d", "\"", ":", "n", "u", "l", "l", "}">>
BodyOtherKey == <<"{", "\"", "x", "\"", ":", "\"", "a", "\"", "}">>
BodyIdEmpty == <<"{", "\"", "i", "d", "\"", ":", "\"", "\"", "}">>
BodyNull == <<"n", "u", "l", "l">>
EventBodies ==
    {BodyEmptyObject, BodyIdA, BodyIdNumber, BodyIdNull, BodyIdEmpty, BodyOtherKey,
     BodyNumber, BodyNull}

\* values of the attempt header: absent, a number, zero, a negative number,
\* a number with a fraction, and no number
AttemptHeaders ==
    {Null, <<"2">>, <<"0">>, <<"-", "1">>, <<"2", ".", "5">>, <<"a", "b", "c">>}

\* options with timeoutMs unset, zero and as long as one advance of the
\* clock, and enforceIdempotency unset and false
EventOptions ==
    [provider : {ProviderStripe, ProviderGithub},
     allowReplay : {"undefined"},
     timeoutMs : {JsUndefined, JsNumber(0), JsNumber(TickMs)},
     enforceIdempotency : {"undefined", "false"}]

\* deliveries signed by the relay
EventRequests ==
    UNION { [eventId : {EventIdE1},
             provider : {ProviderStripe, ProviderGithub},
             timestamp : {NumToString(EpochSeconds)},
             signature : {signPayload(EpochSeconds, b, SecretK1)},
             attempt : AttemptHeaders,
             replayed : {Null},
             body : {b}]
          : b \in EventBodies }

\* what the callbacks of these deliveries throw or reject with
EventThrown == { e \in ThrownValues : ~e.isError }

\* one request, signed by the relay
NextEvent ==
    \/ WrapWith(EventOptions)
    \/ \E r \in SoloInvocations : Invoke(r, EventRequests)
    \/ \E r \in SoloInvocations : ReadBody(r)
    \/ \E r \in SoloInvocations : SigVerifiedWith(r, EventThrown)
    \/ \E r \in SoloInvocations : CallbackSettledWith(r, EventThrown)
    \/ \E r \in SoloInvocations : ReportSettled(r)
    \/ Tick

SpecEvent == InitPair /\ [][NextEvent]_vars

-----------------------------------------------------------------------------
(* Direct calls of reportOutcome *)

\* how many calls of reportOutcome a run makes
MaxReportCalls == 2

\* base URLs given as the parameter and in the environment
UrlParam == <<"h", "t", "t", "p", ":", "/", "/", "p">>
UrlEnv == <<"h", "t", "t", "p", ":", "/", "/", "e">>

\* the apiUrl argument: left out, a URL, the empty string
ApiUrlArguments == {Null, UrlParam, <<>>}

\* HOOKRELAY_API_URL: unset, a URL, the empty string
ApiUrlSettings == {Null, UrlEnv, <<>>}

\* the process starts with HOOKRELAY_API_URL set or not
InitReport ==
    /\ sv = SvStart
    /\ env \in [HOOKRELAY_SECRET : {SecretK1}, HOOKRELAY_API_URL : ApiUrlSettings]
    /\ wrapped = Unwrapped
    /\ clock = 1000 * EpochSeconds
    /\ inv = [r \in AllInvocations |-> IdleInvocation]
    /\ calls = <<>>
    /\ reports = <<>>

\* reportOutcome(eventId, outcome, secret, apiUrl) up to its await fetch(...);
\* the arguments are kept with the request
ReportCall ==
    /\ Len(reports) < MaxReportCalls
    /\ \E eventId \in {EventIdE1, EventIdE2}, apiUrl \in ApiUrlArguments :
          reports' = Append(reports,
              [by |-> 0, eventId |-> eventId, apiUrl |-> apiUrl,
               fetched |-> "none", returned |-> FALSE]
              @@ OutcomeRequest(eventId, [status |-> "success", durationMs |-> 0],
                                env.HOOKRELAY_SECRET, apiUrl))
    /\ UNCHANGED <<sv, env, wrapped, clock, inv, calls>>

\* the fetch of a call settles and reportOutcome returns
ReportReturn ==
    /\ \E i \in 1..Len(reports), fetched \in FetchResults :
          /\ reports[i].fetched = "none"
          /\ reports' = [reports EXCEPT ![i] =
                 [@ EXCEPT !.fetched = fetched, !.returned = ReportResult(fetched)]]
    /\ UNCHANGED <<sv, env, wrapped, clock, inv, calls>>

NextReport == ReportCall \/ ReportReturn

SpecReport == InitReport /\ [][NextReport]_vars

-----------------------------------------------------------------------------
(* timingSafeEqual, statement by statement *)

\* the longest string that is compared
MaxCompareLen == 3

\* characters of the compared strings: a ^ b, a ^ c and b ^ c are 3, 2 and 1
CompareAlphabet == {"a", "b", "c"}

\* the strings that are compared
CompareStrings ==
    UNION { [1..n -> CompareAlphabet] : n \in 0..MaxCompareLen }

\* x | y
BitOr(x, y) == OrAll({x, y})

\* a loop that stops at the first mismatch; not what the code does
LoopContinues_EarlyExit(i, a, result) == i < Len(a) /\ result = 0

\* the loop condition of timingSafeEqual: i < a.length
LoopContinues(i, a, result) == i < Len(a)

\* before the call; visited lists the indices the loop body has run for
CompareStart ==
    [pc |-> "start", a |-> <<>>, b |-> <<>>, i |-> 0, result |-> 0,
     visited |-> <<>>, returned |-> FALSE]

InitCompare ==
    /\ sv = CompareStart
    /\ env = [HOOKRELAY_SECRET |-> SecretK1, HOOKRELAY_API_URL |-> Null]
    /\ wrapped = Unwrapped
    /\ clock = 1000 * EpochSeconds
    /\ inv = [r \in AllInvocations |-> IdleInvocation]
    /\ calls = <<>>
    /\ reports = <<>>

\* timingSafeEqual(a, b) is called
CompareCall ==
    /\ sv.pc = "start"
    /\ \E a \in CompareStrings, b \in CompareStrings :
          sv' = [sv EXCEPT !.pc = "lengths", !.a = a, !.b = b]
    /\ UNCHANGED <<env, wrapped, clock, inv, calls, reports>>

\* if (a.length !== b.length) return false; let result = 0; i = 0
CompareLengths ==
    /\ sv.pc = "lengths"
    /\ sv' = IF Len(sv.a) # Len(sv.b)
             THEN [sv EXCEPT !.pc = "done", !.returned = FALSE]
             ELSE [sv EXCEPT !.pc = "loop", !.result = 0, !.i = 0]
    /\ UNCHANGED <<env, wrapped, clock, inv, calls, reports>>

\* one turn of the loop: result |= a.charCodeAt(i) ^ b.charCodeAt(i); i++
CompareLoop ==
    /\ sv.pc = "loop"
    /\ LoopContinues(sv.i, sv.a, sv.result)
    /\ sv' = [sv EXCEPT
                 !.result = BitOr(sv.result,
                                  BitXor(CharCode(sv.a[sv.i + 1]),
                                         CharCode(sv.b[sv.i + 1]))),
                 !.visited = Append(sv.visited, sv.i),
                 !.i = sv.i + 1]
    /\ UNCHANGED <<env, wrapped, clock, inv, calls, reports>>

\* the loop is left: return result === 0
CompareReturn ==
    /\ sv.pc = "loop"
    /\ ~LoopContinues(sv.i, sv.a, sv.result)
    /\ sv' = [sv EXCEPT !.pc = "done", !.returned = (sv.result = 0)]
    /\ UNCHANGED <<env, wrapped, clock, inv, calls, reports>>

NextCompare == CompareCall \/ CompareLengths \/ CompareLoop \/ CompareReturn

SpecCompare == InitCompare /\ [][NextCompare]_vars

-----------------------------------------------------------------------------
(* Properties of the signature module, under SpecSig *)

\* the prefix every accepted signature header starts with
V1Prefix == <<"v", "1", "=">>

\* C4: a header made by signPayload(t, p, s) verifies under String(t), p and s
\* whenever |now - t| <= 300, the edge of exactly 300 seconds included.
C4_RoundTrip ==
    ( /\ sv.phase = "verified"
      /\ sv.origin = "signed"
      /\ sv.tamper = "none"
      /\ Abs(sv.now - sv.signedTime) <= 300 )
    => sv.result = TRUE

\* C4 witness: a signed tuple verified exactly 300 seconds from its timestamp
C4_Witness ==
    /\ sv.phase = "verified"
    /\ sv.origin = "signed"
    /\ sv.tamper = "none"
    /\ Abs(sv.now - sv.signedTime) = 300
    /\ sv.result = TRUE

\* C5: once a tuple has verified, replacing its payload, its secret or the hex
\* digest of its header by a different one makes verifySignature return false.
C5_TamperDetected ==
    (sv.phase = "verified" /\ sv.tamper # "none") => sv.result = FALSE

\* C5 witness: a verified tuple whose digest was replaced by one of the same
\* length, verified again inside the time window and with the prefix, is refused
C5_Witness ==
    /\ sv.phase = "verified"
    /\ sv.tamper = "digest"
    /\ sv.origin = "signed"
    /\ Abs(sv.now - sv.signedTime) <= 300
    /\ Len(sv.header) = Len(V1Prefix) + 2 * DigestBytes
    /\ sv.result = FALSE

\* the timestamp string is the decimal form of an integer more than 300
\* seconds away from now
C6_OutsideWindow ==
    \E t \in SignTimes :
        sv.timestamp = NumToString(t) /\ Abs(sv.now - t) > 300

\* C6: verifySignature answers false (it has no other way to refuse) when the
\* timestamp is no integer, when it is more than 300 seconds in the past or
\* in the future, whatever the signature, and when the header lacks "v1=".
C6_RejectsByFalse ==
    ( /\ sv.phase = "verified"
      /\ \/ sv.timestamp \in {<<>>, <<"a", "b", "c">>}
         \/ C6_OutsideWindow
         \/ ~StartsWith(sv.header, V1Prefix) )
    => sv.result = FALSE

\* C6 witness: a header signed for a timestamp 301 seconds in the future,
\* correct for that timestamp, payload and secret, is refused
C6_Witness ==
    /\ sv.phase = "verified"
    /\ sv.origin = "signed"
    /\ sv.tamper = "none"
    /\ sv.signedTime - sv.now = 301
    /\ sv.result = FALSE

-----------------------------------------------------------------------------
(* Properties of the handler, under Spec *)

\* the invocations that have been called
Started == { r \in AllInvocations : inv[r].pc # "idle" }

\* how often invocation r has called the callback, and has sent a report
CallCount(r) == Len(SelectSeq(calls, LAMBDA c : c.by = r))
ReportCount(r) == Len(SelectSeq(reports, LAMBDA p : p.by = r))

\* the report invocation r has sent, when it has sent exactly one
TheReport(r) == SelectSeq(reports, LAMBDA p : p.by = r)[1]

\* s occurs in t
Contains(t, s) ==
    \E i \in 0..(Len(t) - Len(s)) : \A j \in 1..Len(s) : t[i + j] = s[j]

\* C1: when verifySignature has answered false, the handler has responded, or
\* responds next, with 401 {error: "Invalid signature"}; it has not called the
\* callback and has sent no report.
C1_InvalidSignature401 ==
    \A r \in Started :
        (inv[r].pc \notin {"awaitBody"} /\ inv[r].rawBody # Null /\ ~inv[r].isValid)
        => /\ inv[r].pc \in {"awaitVerify", "responded"}
           /\ inv[r].pc = "responded" =>
                  inv[r].response =
                      [status |-> 401,
                       body |-> [error |-> <<"I", "n", "v", "a", "l", "i", "d", " ",
                                             "s", "i", "g", "n", "a", "t", "u", "r", "e">>]]
           /\ CallCount(r) = 0
           /\ ReportCount(r) = 0

\* C1 witness: a request with a JSON body and a header signed with another
\* secret has been answered with 401
C1_Witness ==
    \E r \in Started :
        /\ inv[r].pc = "responded"
        /\ inv[r].rawBody = BodyIdA
        /\ inv[r].request.signature = signPayload(EpochSeconds, BodyIdA, SecretK2)
        /\ ~inv[r].isValid
        /\ inv[r].response.status = 401

\* C2: when the callback, synchronous or not, has completed without failure,
\* exactly one report has been sent, with status "success" and a number as
\* durationMs, and the response, once made, is 202 {accepted: true, eventId}
\* with the event-id header.
C2_Success202 ==
    \A r \in Started :
        inv[r].callback = "fulfilled"
        => /\ inv[r].pc \in {"awaitReport", "responded"}
           /\ CallCount(r) = 1
           /\ ReportCount(r) = 1
           /\ TheReport(r).body.status = "success"
           /\ TheReport(r).body.durationMs \in Int
           /\ DOMAIN TheReport(r).body = {"status", "durationMs"}
           /\ inv[r].pc = "responded" =>
                  inv[r].response =
                      [status |-> 202,
                       body |-> [accepted |-> TRUE, eventId |-> inv[r].request.eventId]]

\* C2 witness: a synchronous callback has returned and the request has been
\* answered with 202 after its report
C2_Witness ==
    \E r \in Started :
        /\ inv[r].pc = "responded"
        /\ inv[r].kind = "sync"
        /\ inv[r].callback = "fulfilled"
        /\ inv[r].response.status = 202
        /\ inv[r].response.body.eventId = EventIdE1
        /\ ReportCount(r) = 1

\* what the catch block is to make of a thrown value
C3_ErrorRecord(thrown) ==
    IF thrown.isError
    THEN [name |-> thrown.name, message |-> thrown.message, stack |-> thrown.stack]
    ELSE [name |-> <<"E", "r", "r", "o", "r">>,
          message |-> IF thrown.value.type = "string" THEN thrown.value.str
                      ELSE NumToString(thrown.value.num)]

\* C3: when the callback has thrown or its promise has rejected, the
\* invocation has not thrown; exactly one report has been sent, with status
\* "failure" and the error record of some value user code can throw; the
\* response, once made, is 500 {error: message, eventId} with the message of
\* the report and nothing else.
C3_Failure500 ==
    \A r \in Started :
        inv[r].callback \in {"threw", "rejected"}
        => /\ inv[r].pc \in {"awaitReport", "responded"}
           /\ inv[r].thrown = NoError
           /\ CallCount(r) = 1
           /\ ReportCount(r) = 1
           /\ TheReport(r).body.status = "failure"
           /\ \E thrown \in ThrownValues :
                  TheReport(r).body.error = C3_ErrorRecord(thrown)
           /\ inv[r].pc = "responded" =>
                  inv[r].response =
                      [status |-> 500,
                       body |-> [error |-> TheReport(r).body.error.message,
                                 eventId |-> inv[r].request.eventId]]

\* C3 witness: a promise rejected with the number 42 has been answered with
\* 500 and the message "42"
C3_Witness ==
    \E r \in Started :
        /\ inv[r].pc = "responded"
        /\ inv[r].callback = "rejected"
        /\ inv[r].response.status = 500
        /\ inv[r].response.body.error = <<"4", "2">>
        /\ ReportCount(r) = 1
        /\ TheReport(r).body.error.name = <<"E", "r", "r", "o", "r">>

\* C7: with the secret absent, every invocation ends at once with a
\* HookRelayConfigError for its caller, whatever the request; it makes no
\* response, calls no callback and sends no report.  Making the handler does
\* not fail.
C7_ConfigError ==
    env.HOOKRELAY_SECRET = Null
    => \A r \in Started :
          /\ inv[r].pc = "threw"
          /\ inv[r].thrown.name = <<"H", "o", "o", "k", "R", "e", "l", "a", "y",
                                    "C", "o", "n", "f", "i", "g", "E", "r", "r", "o", "r">>
          /\ inv[r].response = NoResponse
          /\ inv[r].rawBody = Null
          /\ CallCount(r) = 0
          /\ ReportCount(r) = 0

\* C7 witness: the handler was made without a secret, and a request that
\* lacks its event id and names another provider has ended in the error
C7_Witness ==
    \E r \in Started :
        /\ env.HOOKRELAY_SECRET = Null
        /\ wrapped # Unwrapped
        /\ inv[r].pc = "threw"
        /\ inv[r].request.eventId = Null
        /\ inv[r].request.provider # wrapped.provider
        /\ inv[r].thrown = HookRelayConfigError(MsgSecretNotConfigured)

\* the gates a request fails, each judged on its own
C8_FailsHeaders(me) ==
    \E h \in {me.request.eventId, me.request.signature, me.request.timestamp} :
        h \in {Null, <<>>}
C8_FailsProvider(me) == me.request.provider # wrapped.provider
C8_FailsSignature(me) == ~me.isValid
C8_FailsJson(me) == me.rawBody = BodyNotJson
C8_FailsReplay(me) == me.request.replayed = StrTrue /\ wrapped.allowReplay = "false"

\* C8: an answered request has the response of the first gate it fails, in
\* the order required headers, provider, signature, JSON, replay; the body is
\* not read before the first two gates are passed.
C8_GateOrder ==
    \A r \in Started :
        LET me == inv[r]
        IN  (me.pc = "responded" /\ me.secret # Null)
            => IF C8_FailsHeaders(me)
               THEN /\ me.response = [status |-> 400, body |-> [error |-> MsgMissingHeaders]]
                    /\ me.rawBody = Null
               ELSE IF C8_FailsProvider(me)
               THEN /\ me.response.status = 400
                    /\ Contains(me.response.body.error,
                           <<"E", "x", "p", "e", "c", "t", "e", "d", " ",
                             "p", "r", "o", "v", "i", "d", "e", "r">>)
                    /\ me.rawBody = Null
               ELSE IF C8_FailsSignature(me)
               THEN me.response = [status |-> 401, body |-> [error |-> MsgInvalidSignature]]
               ELSE IF C8_FailsJson(me)
               THEN me.response = [status |-> 400, body |-> [error |-> MsgInvalidJson]]
               ELSE IF C8_FailsReplay(me)
               THEN me.response = [status |-> 400, body |-> [error |-> MsgReplayNotAllowed]]
               ELSE me.response.status \in {202, 500}

\* C8 witness: a replayed request with allowReplay false, a valid signature
\* and a body that is no JSON has been answered with 400 "Invalid JSON
\* payload"
C8_Witness ==
    \E r \in Started :
        /\ inv[r].pc = "responded"
        /\ inv[r].request.replayed = StrTrue
        /\ wrapped.allowReplay = "false"
        /\ inv[r].isValid
        /\ inv[r].rawBody = BodyNotJson
        /\ inv[r].response = [status |-> 400, body |-> [error |-> MsgInvalidJson]]

\* the other example of the gate order: a request that names another provider
\* and carries a signature that does not verify is answered by the provider
\* gate
C8_ProviderBeforeSignature ==
    \E r \in Started :
        /\ inv[r].pc = "responded"
        /\ inv[r].request.provider \notin {Null, wrapped.provider}
        /\ inv[r].request.signature =
               signPayload(EpochSeconds, inv[r].request.body, SecretK2)
        /\ inv[r].response.status = 400
        /\ inv[r].rawBody = Null

\* C9: with the secret set, a request that lacks its event id, its signature
\* or its timestamp, whatever else it carries, is answered with 400 {error:
\* "Missing required Hook Relay headers"}; its body is not read and nothing
\* is verified, called or reported.
C9_MissingHeaders400 ==
    \A r \in Started :
        ( /\ inv[r].secret # Null
          /\ \/ inv[r].request.eventId = Null
             \/ inv[r].request.signature = Null
             \/ inv[r].request.timestamp = Null )
        => /\ inv[r].pc = "responded"
           /\ inv[r].response =
                  [status |-> 400,
                   body |-> [error |-> <<"M", "i", "s", "s", "i", "n", "g", " ",
                       "r", "e", "q", "u", "i", "r", "e", "d", " ", "H", "o", "o", "k", " ",
                       "R", "e", "l", "a", "y", " ", "h", "e", "a", "d", "e", "r", "s">>]]
           /\ inv[r].rawBody = Null
           /\ CallCount(r) = 0
           /\ ReportCount(r) = 0

\* C9 witness: a request that lacks only its event id, with the right
\* provider and a signature that would verify, has been answered with 400
C9_Witness ==
    \E r \in Started :
        /\ inv[r].pc = "responded"
        /\ inv[r].request.eventId = Null
        /\ inv[r].request.provider = wrapped.provider
        /\ inv[r].request.timestamp = NumToString(EpochSeconds)
        /\ inv[r].request.signature =
               signPayload(EpochSeconds, inv[r].request.body, SecretK1)
        /\ inv[r].response.status = 400

\* the three required headers are present
C10_HeadersPresent(r) ==
    /\ inv[r].request.eventId \notin {Null, <<>>}
    /\ inv[r].request.signature \notin {Null, <<>>}
    /\ inv[r].request.timestamp \notin {Null, <<>>}

\* the name the message gives the provider header
C10_Actual(r) ==
    IF inv[r].request.provider = Null
    THEN <<"u", "n", "k", "n", "o", "w", "n">>
    ELSE inv[r].request.provider

\* C10: with the secret set and the required headers present, a request whose
\* provider header is absent or differs from options.provider is answered
\* with 400 and the message "Expected provider '<expected>', got '<actual>'",
\* the actual being unknown when the header is absent.
C10_ProviderMismatch400 ==
    \A r \in Started :
        ( /\ inv[r].secret # Null
          /\ C10_HeadersPresent(r)
          /\ inv[r].request.provider # wrapped.provider )
        => /\ inv[r].pc = "responded"
           /\ inv[r].response.status = 400
           /\ DOMAIN inv[r].response.body = {"error"}
           /\ inv[r].response.body.error =
                  <<"E", "x", "p", "e", "c", "t", "e", "d", " ",
                    "p", "r", "o", "v", "i", "d", "e", "r", " ", "'">>
                  \o wrapped.provider
                  \o <<"'", ",", " ", "g", "o", "t", " ", "'">>
                  \o C10_Actual(r) \o <<"'">>

\* C10 witness: a request without the provider header, otherwise complete and
\* signed, has been answered with a message that ends in got 'unknown'
C10_Witness ==
    \E r \in Started :
        /\ inv[r].pc = "responded"
        /\ C10_HeadersPresent(r)
        /\ inv[r].request.provider = Null
        /\ inv[r].request.signature =
               signPayload(EpochSeconds, inv[r].request.body, SecretK1)
        /\ inv[r].response.status = 400
        /\ Contains(inv[r].response.body.error,
               <<"g", "o", "t", " ", "'", "u", "n", "k", "n", "o", "w", "n", "'">>)

\* the events invocation r has handed to the callback
EventsOf(r) == { calls[i].event : i \in { j \in 1..Len(calls) : calls[j].by = r } }

\* what JSON.parse is to make of the bodies that are JSON
C11_PayloadOf(body) ==
    IF body = BodyEmptyObject THEN [type |-> "object", members |-> <<>>]
    ELSE IF body = BodyIdA
    THEN [type |-> "object",
          members |-> << << <<"i", "d">>, [type |-> "string", str |-> <<"a">>] >> >>]
    ELSE [type |-> "number", num |-> 7]

\* C11: once the signature has verified over the raw body and that body is no
\* JSON, the handler answers 400 {error: "Invalid JSON payload"}, throws
\* nothing, calls no callback and sends no report; and every payload handed
\* to the callback is the parse of the raw text that was verified, which is
\* the body of the request.
C11_InvalidJson400 ==
    \A r \in Started :
        /\ ( /\ inv[r].pc \notin {"awaitBody", "awaitVerify"}
             /\ inv[r].isValid
             /\ inv[r].rawBody = BodyNotJson )
           => /\ inv[r].pc = "responded"
              /\ inv[r].thrown = NoError
              /\ inv[r].response =
                     [status |-> 400,
                      body |-> [error |-> <<"I", "n", "v", "a", "l", "i", "d", " ",
                          "J", "S", "O", "N", " ", "p", "a", "y", "l", "o", "a", "d">>]]
              /\ CallCount(r) = 0
              /\ ReportCount(r) = 0
        /\ \A event \in EventsOf(r) :
              /\ inv[r].isValid
              /\ inv[r].rawBody = inv[r].request.body
              /\ inv[r].rawBody \in {BodyEmptyObject, BodyIdA, BodyNumber}
              /\ event.payload = C11_PayloadOf(inv[r].rawBody)

\* C11 witness: a request signed over a body that is no JSON has been
\* answered with 400
C11_Witness ==
    \E r \in Started :
        /\ inv[r].pc = "responded"
        /\ inv[r].isValid
        /\ inv[r].rawBody = BodyNotJson
        /\ inv[r].request.signature = signPayload(EpochSeconds, BodyNotJson, SecretK1)
        /\ inv[r].response.status = 400

\* invocation r has passed the gates ahead of the replay policy: its
\* signature verified and its body is JSON
C12_ReachedReplayGate(r) ==
    /\ inv[r].pc \notin {"awaitBody", "awaitVerify"}
    /\ inv[r].isValid
    /\ inv[r].rawBody \in {BodyEmptyObject, BodyIdA, BodyNumber}

\* C12: a request that has passed the earlier gates is answered with 400
\* {error: "Replayed events are not allowed"}, with no callback and no report,
\* when its replayed header is "true" and allowReplay is false; in every
\* other combination the callback is called once, and the answer after a
\* callback that succeeded is 202.
C12_ReplayPolicy ==
    \A r \in Started :
        C12_ReachedReplayGate(r)
        => IF inv[r].request.replayed = <<"t", "r", "u", "e">>
              /\ wrapped.allowReplay = "false"
           THEN /\ inv[r].pc = "responded"
                /\ inv[r].response =
                       [status |-> 400,
                        body |-> [error |-> <<"R", "e", "p", "l", "a", "y", "e", "d", " ",
                            "e", "v", "e", "n", "t", "s", " ", "a", "r", "e", " ",
                            "n", "o", "t", " ", "a", "l", "l", "o", "w", "e", "d">>]]
                /\ CallCount(r) = 0
                /\ ReportCount(r) = 0
           ELSE /\ CallCount(r) = 1
                /\ \A event \in EventsOf(r) :
                      event.replayed = (inv[r].request.replayed = <<"t", "r", "u", "e">>)
                /\ (inv[r].pc = "responded" /\ inv[r].callback = "fulfilled")
                   => inv[r].response.status = 202
                /\ inv[r].pc = "responded" => inv[r].response.status \in {202, 500}

\* C12 witness: a replayed request to a handler made without allowReplay,
\* whose callback succeeded, has been answered with 202
C12_Witness ==
    \E r \in Started :
        /\ inv[r].pc = "responded"
        /\ inv[r].request.replayed = StrTrue
        /\ wrapped.allowReplay = "undefined"
        /\ inv[r].callback = "fulfilled"
        /\ inv[r].response.status = 202

\* the rejecting side of the replay policy has happened too
C12_Rejected ==
    \E r \in Started :
        /\ inv[r].pc = "responded"
        /\ C12_ReachedReplayGate(r)
        /\ inv[r].request.replayed = StrTrue
        /\ wrapped.allowReplay = "false"
        /\ inv[r].response.status = 400

\* C13: whichever way the report's HTTP call went, reportOutcome has returned
\* a Boolean, true for a 2xx response only, and nothing is thrown; the
\* handler has sent one report and no more, has logged a failed one, and its
\* response is the one the callback's outcome alone decides: 202 {accepted:
\* true, eventId} after success, 500 {error: message, eventId} after failure.
C13_ReportFailureSwallowed ==
    \A r \in Started :
        (inv[r].pc = "responded" /\ inv[r].callback \in {"fulfilled", "threw", "rejected"})
        => /\ inv[r].fetched \in {"ok", "notOk", "networkError"}
           /\ inv[r].reported = (inv[r].fetched = "ok")
           /\ inv[r].logged = (inv[r].fetched # "ok")
           /\ inv[r].thrown = NoError
           /\ ReportCount(r) = 1
           /\ inv[r].response =
                  IF inv[r].callback = "fulfilled"
                  THEN [status |-> 202,
                        body |-> [accepted |-> TRUE, eventId |-> inv[r].request.eventId]]
                  ELSE [status |-> 500,
                        body |-> [error |-> TheReport(r).body.error.message,
                                  eventId |-> inv[r].request.eventId]]

\* C13 witness: the relay answered the report of a failed callback with a
\* status that is not 2xx, and the request has been answered with 500
C13_Witness ==
    \E r \in Started :
        /\ inv[r].pc = "responded"
        /\ inv[r].callback = "rejected"
        /\ inv[r].fetched = "notOk"
        /\ ~inv[r].reported
        /\ inv[r].response.status = 500
        /\ ReportCount(r) = 1

\* the other failures of the report: a network error after a callback that
\* succeeded, answered with 202
C13_NetworkError ==
    \E r \in Started :
        /\ inv[r].pc = "responded"
        /\ inv[r].callback = "fulfilled"
        /\ inv[r].fetched = "networkError"
        /\ ~inv[r].reported
        /\ inv[r].response.status = 202

-----------------------------------------------------------------------------
(* Properties of several deliveries, under SpecPair *)

\* C14: with enforceIdempotency left at its default or set to true, the
\* callback runs at most once for each Hook Relay event id, however many
\* deliveries carry it.
C14_AtMostOncePerEventId ==
    wrapped.enforceIdempotency \in {"undefined", "true"}
    => \A i, j \in 1..Len(calls) :
          calls[i].event.id = calls[j].event.id => i = j

\* a delivery of an event was answered with 202 and a later delivery of the
\* same event ran the callback again
C14_SecondDeliveryRuns ==
    /\ Len(calls) = 2
    /\ calls[1].event.id = calls[2].event.id
    /\ calls[1].by # calls[2].by
    /\ inv[calls[1].by].pc = "responded"
    /\ inv[calls[1].by].response.status = 202
    /\ inv[calls[2].by].startTime > inv[calls[1].by].startTime

\* the URL of the outcome endpoint of an event at the default base URL
DefaultOutcomeUrl(eventId) ==
    <<"h", "t", "t", "p", "s", ":", "/", "/", "a", "p", "i", ".",
      "h", "o", "o", "k", "r", "e", "l", "a", "y", ".", "i", "o",
      "/", "v", "1", "/", "e", "v", "e", "n", "t", "s", "/">>
    \o eventId \o <<"/", "o", "u", "t", "c", "o", "m", "e">>

\* C16: however the steps of two invocations interleave, each invocation
\* calls the callback and reports at most once, and its event, its report and
\* its response are made of its own request, its own callback's outcome and
\* the configuration, as when it is handled alone.
C16_Independent ==
    \A r \in Started :
        LET me == inv[r]
        IN  /\ CallCount(r) <= 1
            /\ ReportCount(r) <= 1
            /\ me.secret = env.HOOKRELAY_SECRET
            /\ \A event \in EventsOf(r) :
                  /\ event = me.event
                  /\ event.id = me.request.eventId
                  /\ event.provider = wrapped.provider
                  /\ event.payload = C11_PayloadOf(me.request.body)
                  /\ event.receivedAt = me.startTime
            /\ ReportCount(r) = 1
               => /\ TheReport(r).url = DefaultOutcomeUrl(me.request.eventId)
                  /\ TheReport(r).authorization =
                         <<"B", "e", "a", "r", "e", "r", " ">> \o env.HOOKRELAY_SECRET
                  /\ TheReport(r).body = me.outcome
                  /\ me.outcome.status =
                         IF me.callback = "fulfilled" THEN "success" ELSE "failure"
            /\ me.pc = "responded"
               => /\ me.response.status = IF me.callback = "fulfilled" THEN 202 ELSE 500
                  /\ me.response.body.eventId = me.request.eventId

\* C16 witness: two deliveries of different events were handled at the same
\* time, the second overtaking the first; one was answered with 202 and the
\* other with 500
C16_Witness ==
    /\ inv[1].pc = "responded" /\ inv[2].pc = "responded"
    /\ inv[1].request.eventId # inv[2].request.eventId
    /\ Len(calls) = 2 /\ calls[1].by = 1
    /\ Len(reports) = 2 /\ reports[1].by = 2
    /\ inv[1].response.status = 202
    /\ inv[2].response.status = 500

-----------------------------------------------------------------------------
(* Properties of accepted deliveries, under SpecEvent *)

\* the callback of invocation r has settled
CallbackHasSettled(r) == inv[r].callback \in {"fulfilled", "threw", "rejected"}

C17_EventIdFromHeader ==
    \A r \in Started :
        CallCount(r) > 0
        => /\ \A event \in EventsOf(r) : event.id = inv[r].request.eventId
           /\ ReportCount(r) > 0
              => \A i \in 1..Len(reports) :
                    reports[i].by = r
                    => reports[i].url = DefaultOutcomeUrl(inv[r].request.eventId)
           /\ inv[r].pc = "responded"
              => /\ inv[r].response.status \in {202, 500}
                 /\ inv[r].response.body.eventId = inv[r].request.eventId

\* C17 witness: a stripe delivery whose payload has the id "a" was handed to
\* the callback, reported and answered under the id of its header
C17_Witness ==
    \E r \in Started :
        /\ inv[r].pc = "responded"
        /\ wrapped.provider = ProviderStripe
        /\ inv[r].rawBody = BodyIdA
        /\ inv[r].event.providerEventId = JsString(<<"a">>)
        /\ inv[r].event.id = EventIdE1
        /\ inv[r].response.body.eventId = EventIdE1
        /\ ReportCount(r) = 1

\* the top-level id of the bodies that have one that is neither null nor
\* undefined
C18_IdOf(body) ==
    IF body = BodyIdA THEN [type |-> "string", str |-> <<"a">>]
    ELSE IF body = BodyIdEmpty THEN [type |-> "string", str |-> <<>>]
    ELSE [type |-> "number", num |-> 7]

\* C18: the providerEventId handed to the callback is the payload's top-level
\* id when the provider is stripe and the payload is an object with such an
\* id; for any other provider, a payload that is no object, an object
\* without id or with a null id, it is event.id.
C18_ProviderEventId ==
    \A r \in Started :
        \A event \in EventsOf(r) :
            IF /\ wrapped.provider = <<"s", "t", "r", "i", "p", "e">>
               /\ inv[r].rawBody \in {BodyIdA, BodyIdEmpty, BodyIdNumber}
            THEN event.providerEventId = C18_IdOf(inv[r].rawBody)
            ELSE /\ event.providerEventId = [type |-> "string", str |-> event.id]
                 /\ event.id = inv[r].request.eventId

\* C18 witness: the callback of a stripe handler got the id "a" of the
\* payload as providerEventId
C18_Witness ==
    \E r \in Started :
        /\ wrapped.provider = ProviderStripe
        /\ inv[r].rawBody = BodyIdA
        /\ CallCount(r) = 1
        /\ inv[r].event.providerEventId = JsString(<<"a">>)
        /\ inv[r].event.id = EventIdE1

\* the fallbacks have happened too: a payload with an id under another
\* provider, and a stripe payload that is no object
C18_FallbackOtherProvider ==
    \E r \in Started :
        /\ wrapped.provider = ProviderGithub
        /\ inv[r].rawBody = BodyIdA
        /\ CallCount(r) = 1
        /\ inv[r].event.providerEventId = JsString(EventIdE1)
C18_FallbackNoObject ==
    \E r \in Started :
        /\ wrapped.provider = ProviderStripe
        /\ inv[r].rawBody = BodyNumber
        /\ CallCount(r) = 1
        /\ inv[r].event.providerEventId = JsString(EventIdE1)

\* C19: the attempt handed to the callback is 1 when the attempt header is
\* absent, the header's integer when it is a positive integer, and for every
\* value of the header an integer that is at least 1.
C19_AttemptAtLeastOne ==
    \A r \in Started :
        \A event \in EventsOf(r) :
            /\ inv[r].request.attempt = Null => event.attempt = [nan |-> FALSE, value |-> 1]
            /\ inv[r].request.attempt = <<"2">> => event.attempt = [nan |-> FALSE, value |-> 2]
            /\ ~event.attempt.nan
            /\ event.attempt.value >= 1

\* the attempts the callback got for headers that are no positive integer:
\* NaN for "abc", 0 for "0", -1 for "-1"
C19_NotANumber ==
    \E r \in Started :
        /\ inv[r].request.attempt = <<"a", "b", "c">>
        /\ CallCount(r) = 1
        /\ inv[r].event.attempt.nan
C19_Zero ==
    \E r \in Started :
        /\ inv[r].request.attempt = <<"0">>
        /\ CallCount(r) = 1
        /\ inv[r].event.attempt = [nan |-> FALSE, value |-> 0]

-----------------------------------------------------------------------------
(* Properties of reportOutcome, under SpecReport *)

\* the base URL the claim gives a call: the parameter when it is given, else
\* the environment's when it is set, else the default
C20_BaseUrl(apiUrl) ==
    IF apiUrl # Null THEN apiUrl
    ELSE IF env.HOOKRELAY_API_URL # Null THEN env.HOOKRELAY_API_URL
    ELSE <<"h", "t", "t", "p", "s", ":", "/", "/", "a", "p", "i", ".",
           "h", "o", "o", "k", "r", "e", "l", "a", "y", ".", "i", "o">>

\* C20: every request of reportOutcome goes to {base}/v1/events/{eventId}/
\* outcome, where base is the apiUrl parameter whenever it is given, the
\* value of HOOKRELAY_API_URL only when no parameter is given, and
\* https://api.hookrelay.io only when neither is set.
C20_BaseUrlResolution ==
    \A i \in 1..Len(reports) :
        reports[i].by = 0
        => reports[i].url =
               C20_BaseUrl(reports[i].apiUrl)
               \o <<"/", "v", "1", "/", "e", "v", "e", "n", "t", "s", "/">>
               \o reports[i].eventId
               \o <<"/", "o", "u", "t", "c", "o", "m", "e">>

\* C20 witness: with HOOKRELAY_API_URL set, a call with the parameter went to
\* the parameter's URL and a call without it to the environment's
C20_Witness ==
    /\ env.HOOKRELAY_API_URL = UrlEnv
    /\ Len(reports) = 2
    /\ reports[1].apiUrl = UrlParam
    /\ StartsWith(reports[1].url, UrlParam)
    /\ reports[2].apiUrl = Null
    /\ StartsWith(reports[2].url, UrlEnv)

\* the default is used too
C20_Default ==
    /\ env.HOOKRELAY_API_URL = Null
    /\ Len(reports) >= 1
    /\ reports[1].apiUrl = Null
    /\ StartsWith(reports[1].url, DEFAULT_API_URL)

-----------------------------------------------------------------------------
(* Properties of timingSafeEqual, under SpecCompare *)

\* the indices 0..n-1 in order
C21_AllIndices(n) == [k \in 1..n |-> k - 1]

\* C21: timingSafeEqual(a, b) returns true exactly when a and b are the same
\* string; when the lengths differ it returns false before its loop runs;
\* for equal lengths the loop body runs once for every index 0..length-1,
\* wherever the first mismatch is and whether there is one, and while it
\* runs result is zero exactly when the characters visited so far agree.
C21_ConstantTimeEqual ==
    /\ sv.pc = "loop"
       => (sv.result = 0) = (SubSeq(sv.a, 1, sv.i) = SubSeq(sv.b, 1, sv.i))
    /\ sv.pc = "done"
       => /\ sv.returned = (sv.a = sv.b)
          /\ sv.returned = timingSafeEqual(sv.a, sv.b)
          /\ Len(sv.a) # Len(sv.b) => sv.visited = <<>> /\ ~sv.returned
          /\ Len(sv.a) = Len(sv.b) => sv.visited = C21_AllIndices(Len(sv.a))

\* C21 witness: strings of the longest length that differ at the first
\* index already, compared to the end
C21_Witness ==
    /\ sv.pc = "done"
    /\ Len(sv.a) = MaxCompareLen /\ Len(sv.b) = MaxCompareLen
    /\ sv.a[1] # sv.b[1]
    /\ Len(sv.visited) = MaxCompareLen
    /\ ~sv.returned

\* a mismatch at the last index only
C21_LastIndex ==
    /\ sv.pc = "done"
    /\ Len(sv.a) = MaxCompareLen /\ Len(sv.b) = MaxCompareLen
    /\ SubSeq(sv.a, 1, MaxCompareLen - 1) = SubSeq(sv.b, 1, MaxCompareLen - 1)
    /\ sv.a # sv.b
    /\ ~sv.returned

\* equal strings
C21_Equal ==
    /\ sv.pc = "done"
    /\ Len(sv.a) = MaxCompareLen
    /\ sv.a = sv.b
    /\ sv.returned
    /\ Len(sv.visited) = MaxCompareLen

\* different lengths
C21_Lengths ==
    /\ sv.pc = "done"
    /\ Len(sv.a) # Len(sv.b)
    /\ sv.visited = <<>>

-----------------------------------------------------------------------------
(* Side effects of one invocation, under Spec *)

\* the callback of invocation r has settled
C22_Settled(r) == inv[r].callback \in {"fulfilled", "threw", "rejected"}

\* C22: in every state of every invocation, whatever the request, the
\* callback and the report call do: the callback has been called at most once
\* and at most one report has been sent; a report has been sent exactly when
\* the callback has been called and has settled; an invocation answered with
\* 400 or 401, or ended by the configuration error, has called nothing and
\* reported nothing; an invocation answers 202 exactly after a success report
\* and 500 exactly after a failure report.
C22_SideEffects ==
    \A r \in Started :
        /\ CallCount(r) <= 1
        /\ ReportCount(r) <= 1
        /\ Len(calls) = CallCount(r)
        /\ Len(reports) = ReportCount(r)
        /\ (ReportCount(r) = 1) = (CallCount(r) = 1 /\ C22_Settled(r))
        /\ (inv[r].pc = "responded" /\ inv[r].response.status \in {400, 401})
           => CallCount(r) = 0 /\ ReportCount(r) = 0
        /\ inv[r].pc = "threw"
           => /\ inv[r].thrown.name = NameConfigError
              /\ inv[r].response = NoResponse
              /\ CallCount(r) = 0 /\ ReportCount(r) = 0
        /\ inv[r].pc = "responded"
           => /\ inv[r].response.status \in {400, 401, 202, 500}
              /\ (inv[r].response.status = 202)
                 = (ReportCount(r) = 1 /\ TheReport(r).body.status = "success")
              /\ (inv[r].response.status = 500)
                 = (ReportCount(r) = 1 /\ TheReport(r).body.status = "failure")

\* C22 witness: a callback that threw, and whose report did not get through,
\* was called once and reported once as a failure, and was answered with 500
C22_Witness ==
    \E r \in Started :
        /\ inv[r].pc = "responded"
        /\ inv[r].callback = "threw"
        /\ inv[r].fetched = "networkError"
        /\ CallCount(r) = 1
        /\ ReportCount(r) = 1
        /\ TheReport(r).body.status = "failure"
        /\ inv[r].response.status = 500

\* a success whose report was refused
C22_SuccessUnreported ==
    \E r \in Started :
        /\ inv[r].pc = "responded"
        /\ inv[r].callback = "fulfilled"
        /\ ~inv[r].reported
        /\ ReportCount(r) = 1
        /\ inv[r].response.status = 202

\* a callback that was called and has not settled: nothing is reported yet
C22_Pending ==
    \E r \in Started :
        /\ inv[r].callback = "pending"
        /\ CallCount(r) = 1
        /\ ReportCount(r) = 0

\* a rejected request
C22_Rejected ==
    \E r \in Started :
        /\ inv[r].pc = "responded"
        /\ inv[r].response.status = 401
        /\ Len(calls) = 0 /\ Len(reports) = 0

-----------------------------------------------------------------------------
(* What an accepted signature binds, under SpecSig *)

\* "v1=" + hex(HMAC-SHA256(secret, text + "." + payload)), for a text
C23_SignatureOver(text, payload, secret) ==
    V1Prefix \o HexJoin(HmacSha256(Encode(secret), Encode(text \o <<".">> \o payload)))

\* the timestamp strings verifySignature accepts at the time of the call,
\* with the payload, header and secret of the call
C23_Accepted ==
    { t \in TimestampStrings :
        verifySignature(t, sv.payload, sv.header, sv.secret, sv.now) }

\* C23 as stated: an accepted header is the signature over the timestamp
\* string as received, and no other timestamp string is accepted with the
\* same payload, header and secret.
C23_BindsLiteralTimestamp ==
    (sv.phase = "verified" /\ sv.result)
    => /\ sv.header = C23_SignatureOver(sv.timestamp, sv.payload, sv.secret)
       /\ C23_Accepted \subseteq {sv.timestamp}

\* C23, amended: an accepted header is the signature over the decimal form of
\* the integer parseInt reads from the timestamp string, and every timestamp
\* string accepted with the same payload, header and secret reads as that
\* integer.
C23_BindsParsedTimestamp ==
    (sv.phase = "verified" /\ sv.result)
    => LET ts == ParseInt(sv.timestamp)
       IN  /\ ~ts.nan
           /\ sv.header = C23_SignatureOver(NumToString(ts.value), sv.payload, sv.secret)
           /\ \A t \in C23_Accepted : ParseInt(t) = ts

\* C23 witness: a timestamp string with a trailing letter is accepted under
\* the signature made for its integer prefix, as are other forms of it
C23_Witness ==
    /\ sv.phase = "verified"
    /\ sv.result
    /\ sv.timestamp = NumToString(EpochSeconds) \o <<"x">>
    /\ sv.header = signPayload(EpochSeconds, sv.payload, sv.secret)
    /\ Cardinality(C23_Accepted) > 1

\* leading white space, a leading zero, a fractional part
C23_LeadingSpace ==
    /\ sv.phase = "verified" /\ sv.result
    /\ sv.timestamp = <<" ">> \o NumToString(EpochSeconds)
C23_LeadingZero ==
    /\ sv.phase = "verified" /\ sv.result
    /\ sv.timestamp = <<"0">> \o NumToString(EpochSeconds)
C23_Fraction ==
    /\ sv.phase = "verified" /\ sv.result
    /\ sv.timestamp = NumToString(EpochSeconds) \o <<".", "5">>

=============================================================================
